---- MODULE Spec2Model ----
(***************************************************************************)
(* pp-fee-updater: the block event loop of src/src/main.rs driving         *)
(* check_fee_update / update_fee of src/src/updater.rs, together with the  *)
(* chain (latest block gas price, contract's stored price, receipts) that  *)
(* the provider calls read and the submitted transactions act on.          *)
(*                                                                         *)
(* Every .await of the code is a step of its own: the chain may move       *)
(* between two provider calls of one cycle.                                *)
(***************************************************************************)
EXTENDS Integers, FiniteSets, Sequences, TLC

(***************************************************************************)
(* Bounds of the model.                                                    *)
(***************************************************************************)
\* u128 / i128 are modelled with U128Bits bits instead of 128, so that every
\* product the code forms fits the integers of the model checker.
U128Bits == 20
\* Transaction hashes the submitter can hand out in one run.
MaxTx == 2
\* Blocks the node announces in one run.
MaxBlocks == 2
\* Messages the transport holds before read.next() returns them.
MaxInbox == 2

U128Mod == 2 ^ U128Bits
I128Half == U128Mod \div 2

\* Felt values the chain takes while the loop runs: zero, ordinary fri
\* prices, the largest u128 (U128Mod - 1) and a felt that does not fit u128
\* (U128Mod).
Prices == {0, 1000, U128Mod - 1, U128Mod}
\* Felt values for the decision rule alone: the prices of the documented
\* scenarios, the values next to the 105 / 85 bounds of 1000, and the
\* extremes of u128 and i128.
CalcPrices == {0, 1, 820, 849, 850, 950, 1000, 1050, 1051, 1100,
               U128Mod \div 4, I128Half, U128Mod - 1, U128Mod}

\* The four percentage parameters of check_fee_update.
DefaultConfig ==
    [upward_threshold_const |-> 105, downward_threshold_const |-> 85,
     upward_buffer_const |-> 110, downward_buffer_const |-> 110]
FlatConfig ==
    [upward_threshold_const |-> 100, downward_threshold_const |-> 100,
     upward_buffer_const |-> 100, downward_buffer_const |-> 100]
\* Thresholds the wrong way round (downward above upward).
InvertedConfig ==
    [upward_threshold_const |-> 90, downward_threshold_const |-> 110,
     upward_buffer_const |-> 110, downward_buffer_const |-> 110]
Configs == {DefaultConfig, FlatConfig, InvertedConfig}

\* Cargo profile: overflow-checks on (debug) or off (release).
Profiles == {"debug", "release"}

(***************************************************************************)
(* PendingUpdate and Option<PendingUpdate>.                                *)
(***************************************************************************)
NoPending == [some |-> FALSE, gas_price |-> 0, tx_hash |-> 0]
PendingUpdate(gas_price, tx_hash) ==
    [some |-> TRUE, gas_price |-> gas_price, tx_hash |-> tx_hash]

(***************************************************************************)
(* Integer arithmetic of check_fee_update.                                 *)
(***************************************************************************)
\* Felt -> u128 (to_biguint().try_into()): fails when the value does not fit.
FitsU128(felt) == felt < U128Mod

\* u128 multiplication: the mathematical product, and what a wrapping build
\* keeps of it.
MulOverflows(a, b) == a * b >= U128Mod
wrapping_mul(a, b) == (a * b) % U128Mod

upward_threshold(contract_price_u128, cfg) ==
    wrapping_mul(contract_price_u128, cfg.upward_threshold_const) \div 100
downward_threshold(contract_price_u128, cfg) ==
    wrapping_mul(contract_price_u128, cfg.downward_threshold_const) \div 100

update_direction(current_price_u128, up_thr, down_thr) ==
    IF current_price_u128 > up_thr THEN "upward"
    ELSE IF current_price_u128 < down_thr THEN "downward"
    ELSE "none"

buffered_price(current_price_u128, direction, cfg) ==
    CASE direction = "upward" ->
            wrapping_mul(current_price_u128, cfg.upward_buffer_const) \div 100
      [] direction = "downward" ->
            wrapping_mul(current_price_u128, cfg.downward_buffer_const) \div 100
      [] OTHER -> current_price_u128

BufferOverflows(current_price_u128, direction, cfg) ==
    CASE direction = "upward" ->
            MulOverflows(current_price_u128, cfg.upward_buffer_const)
      [] direction = "downward" ->
            MulOverflows(current_price_u128, cfg.downward_buffer_const)
      [] OTHER -> FALSE

\* `x as i128` and two's complement wrapping of an i128 result.
as_i128(x) == IF x >= I128Half THEN x - U128Mod ELSE x
InI128(x) == -I128Half <= x /\ x < I128Half
wrap_i128(x) == ((x + I128Half) % U128Mod) - I128Half

\* The percent drift of the info! line:
\*   (current as i128 - contract as i128) * 100 / contract as i128
\* evaluated only when contract_price_u128 > 0.
DriftDiff(cur, con) == as_i128(cur) - as_i128(con)
DriftProd(cur, con) == wrap_i128(DriftDiff(cur, con)) * 100
DriftOverflows(cur, con) ==
    con > 0 /\ (~InI128(DriftDiff(cur, con)) \/ ~InI128(DriftProd(cur, con)))
\* i128::MIN / -1 panics under every profile.
DriftDivPanics(cur, con) ==
    con > 0 /\ as_i128(con) = -1 /\ wrap_i128(DriftProd(cur, con)) = -I128Half


\* Lines 125-191 of check_fee_update, the part without an await: conversion
\* of both felts, the two thresholds, the decision, the logged drift and the
\* buffered price. kind is "conversion" (Err(Conversion)), "panic" (an
\* arithmetic panic: overflow with overflow-checks on, or i128::MIN / -1) or
\* "ok" (Ok((should_update, new_gas_price))).
price_analysis(current_gas_price, gas_price_on_contract, cfg, profile) ==
    LET con == gas_price_on_contract
        cur == current_gas_price
        up == upward_threshold(con, cfg)
        down == downward_threshold(con, cfg)
        dir == update_direction(cur, up, down)
        should == dir # "none"
        none == [kind |-> "ok", should_update |-> FALSE, direction |-> "none",
                 new_gas_price |-> 0, upward_threshold |-> 0,
                 downward_threshold |-> 0]
    IN  IF ~FitsU128(con) \/ ~FitsU128(cur)
        THEN [none EXCEPT !.kind = "conversion"]
        ELSE IF \/ profile = "debug" /\ MulOverflows(con, cfg.upward_threshold_const)
                \/ profile = "debug" /\ MulOverflows(con, cfg.downward_threshold_const)
                \/ profile = "debug" /\ DriftOverflows(cur, con)
                \/ DriftDivPanics(cur, con)
                \/ profile = "debug" /\ BufferOverflows(cur, dir, cfg)
        THEN [none EXCEPT !.kind = "panic"]
        ELSE [kind |-> "ok", should_update |-> should, direction |-> dir,
              new_gas_price |-> IF should THEN buffered_price(cur, dir, cfg) ELSE 0,
              upward_threshold |-> up, downward_threshold |-> down]

(***************************************************************************)
(* Pending-transaction status (check_transaction_status and its caller).   *)
(***************************************************************************)
\* Contract reads are a felt, or ReadErr when the provider call failed.
ReadErr == 0 - 2
NotRead == 0 - 1

\* Faulty variants of the operators below, used to show that the properties
\* at the end of the module depend on them.
completed_status_error_is_pending(read, expected_gas_price) ==
    IF read = ReadErr THEN "Pending"
    ELSE IF read = expected_gas_price THEN "Confirmed"
    ELSE "mismatch"
mismatch_status_is_pending(read, expected_gas_price) ==
    IF read # ReadErr /\ read = expected_gas_price THEN "Confirmed" ELSE "Pending"
tracker_cleared_on_every_status(pending, status) == NoPending
continues_on_every_status(status) == TRUE
continues_only_after_failure(status) == status = "Failed"
tracker_after_send_forgets(pending, gas_price, ok, transaction_hash) ==
    IF ok THEN pending ELSE NoPending
tracker_after_send_records_failure(pending, gas_price, ok, transaction_hash) ==
    PendingUpdate(gas_price, transaction_hash)
receipt_status_error_is_included(receipt) ==
    IF receipt = "none" THEN "Pending" ELSE "included"

\* get_transaction_receipt: Ok(_) ("found") goes on to the contract read, any
\* Err(_) (no such receipt: "none"; the call failed: "err") is
\* TransactionStatus::Pending.
receipt_status(receipt) == IF receipt = "found" THEN "included" ELSE "Pending"

\* check_if_update_completed and the three arms matching on it.
completed_status(read, expected_gas_price) ==
    IF read = ReadErr THEN "Failed"
    ELSE IF read = expected_gas_price THEN "Confirmed"
    ELSE "mismatch"

\* The diagnostic second read of the Ok(false) arm:
\* .map(|r| r[0]).unwrap_or(Felt::ZERO), then the forced success.
actual_value(read) == IF read = ReadErr THEN 0 ELSE read
mismatch_status(read, expected_gas_price) ==
    IF actual_value(read) = expected_gas_price THEN "Confirmed" ELSE "Failed"

\* The match of check_fee_update on the status: what it leaves in the tracker
\* and whether the cycle goes on to the price comparison.
tracker_kept_after_failure(pending, status) ==
    IF status = "Confirmed" THEN NoPending ELSE pending
tracker_after_status(pending, status) ==
    IF status = "Pending" THEN pending ELSE NoPending
continues_after_status(status) == status # "Pending"

\* update_fee's match on the result of send(): Ok(result) or Err(e).
tracker_after_send(pending, gas_price, ok, transaction_hash) ==
    IF ok THEN PendingUpdate(gas_price, transaction_hash) ELSE NoPending

\* main: update_fee is called exactly when check_fee.0 is true.
calls_update_fee(should_update) == should_update

(***************************************************************************)
(* State.                                                                  *)
(***************************************************************************)
VARIABLES
    cfg,                 \* the four percentage parameters (fixed at startup)
    profile,             \* overflow-checks on or off (fixed at build)
    pc,                  \* the await the event loop is suspended at
    pending_fee_update,  \* main's Option<PendingUpdate>
    cycle,               \* locals and observations of the current/last cycle
    net_price,           \* chain: l1_gas_price.price_in_fri of the latest block
    contract_price,      \* chain: the contract's get_current_gas_price
    sent,                \* chain: transactions broadcast, tx_hash -> gas_price
    receipts,            \* chain: tx hashes that have a receipt
    next_tx,             \* next transaction hash the submitter returns
    inbox,               \* transport: messages read.next() has yet to return
    heads,               \* transport: number of the last block announced
    handled,             \* block numbers check_fee_update was called for
    last                 \* kind of the last message read.next() returned

vars == <<cfg, profile, pc, pending_fee_update, cycle, net_price,
          contract_price, sent, receipts, next_tx, inbox, heads, handled,
          last>>

chain == <<net_price, contract_price, sent, receipts, next_tx>>
build == <<cfg, profile>>
transport == <<inbox, heads, handled, last>>

\* The cycle record at the start of a cycle.
NewCycle(pending) ==
    [start |-> pending,          \* tracker when the notification was taken
     receipt |-> "na",           \* "na" | "found" | "none" | "err"
     first_read |-> NotRead,     \* check_if_update_completed's contract read
     second_read |-> NotRead,    \* the Ok(false) arm's contract read
     status |-> "na",            \* "na" | "Confirmed" | "Failed" | "Pending"
     after_check |-> pending,    \* tracker when the pending check was left
     current_gas_price |-> NotRead,      \* step 2 block read
     gas_price_on_contract |-> NotRead,  \* step 2 contract read
     block_read |-> "na",        \* "na" | "ok" | "err" | "pending_block"
     should_update |-> FALSE,
     direction |-> "na",
     new_gas_price |-> 0,
     upward_threshold |-> 0,     \* the two thresholds as computed
     downward_threshold |-> 0,
     submit |-> "none",          \* "none" | "called" | "sent" | "failed"
     transaction_hash |-> 0,
     result |-> "running"]       \* how the cycle ended

SentHashes == {t \in 1..MaxTx : sent[t] # NotRead}

\* main before the first read.next(): the tracker is None, nothing is sent.
Startup(configs, prices) ==
    /\ cfg \in configs
    /\ profile \in Profiles
    /\ pc = "recv"
    /\ pending_fee_update = NoPending
    /\ cycle = [NewCycle(NoPending) EXCEPT !.result = "none"]
    /\ net_price \in prices
    /\ contract_price \in prices
    /\ sent = [t \in 1..MaxTx |-> NotRead]
    /\ receipts = {}
    /\ next_tx = 1
    /\ inbox = <<>>
    /\ heads = 0
    /\ handled = <<>>
    /\ last = "none"

Init == Startup({DefaultConfig}, Prices)


(***************************************************************************)
(* The event loop: one step per await.                                     *)
(***************************************************************************)
\* Faulty variant: an Err of check_fee_update leaves the loop (as `?` would).
EndCycle_error_leaves_loop(c, how) ==
    /\ cycle' = [c EXCEPT !.result = how]
    /\ pc' = IF how = "err_provider" THEN "exited" ELSE "recv"

\* The cycle is over: main goes back to read.next().
EndCycle(c, how) ==
    /\ cycle' = [c EXCEPT !.result = how]
    /\ pc' = "recv"

\* The match on check_transaction_status's result (updater.rs 58-86), then
\* either the early return (main takes it as "no update needed") or the
\* price comparison. check_transaction_status returns Err only through
\* get_selector_from_name of a constant name, which does not fail, so the
\* Err(e) arm of the match has no step here.
ApplyStatus(c, status) ==
    LET left == tracker_after_status(pending_fee_update, status)
        c2 == [c EXCEPT !.status = status, !.after_check = left]
    IN  /\ pending_fee_update' = left
        /\ IF continues_after_status(status)
           THEN cycle' = c2 /\ pc' = "block"
           ELSE IF calls_update_fee(FALSE)
                THEN cycle' = [c2 EXCEPT !.submit = "called"] /\ pc' = "chain_id"
                ELSE EndCycle(c2, "ok_pending")

\* main calls check_fee_update, which looks at the tracker first.
StartCycle ==
    /\ cycle' = NewCycle(pending_fee_update)
    /\ pc' = IF pending_fee_update.some THEN "receipt" ELSE "block"

\* A starknet_subscriptionNewHeads notification with params, whatever else
\* the stream carries.
RecvNewHeads ==
    /\ pc = "recv"
    /\ StartCycle
    /\ UNCHANGED <<pending_fee_update, chain, build, transport>>

\* get_transaction_receipt(tx_hash) returned Ok: the transaction has a receipt.
ReceiptFound ==
    /\ pc = "receipt"
    /\ pending_fee_update.tx_hash \in receipts
    /\ LET c == [cycle EXCEPT !.receipt = "found"]
       IN  IF receipt_status("found") = "included"
           THEN cycle' = c /\ pc' = "completed" /\ UNCHANGED pending_fee_update
           ELSE ApplyStatus(c, receipt_status("found"))
    /\ UNCHANGED <<chain, build, transport>>

\* get_transaction_receipt(tx_hash) returned Err because the transaction has
\* no receipt yet.
ReceiptNotFound ==
    /\ pc = "receipt"
    /\ pending_fee_update.tx_hash \notin receipts
    /\ LET c == [cycle EXCEPT !.receipt = "none"]
       IN  IF receipt_status("none") = "included"
           THEN cycle' = c /\ pc' = "completed" /\ UNCHANGED pending_fee_update
           ELSE ApplyStatus(c, receipt_status("none"))
    /\ UNCHANGED <<chain, build, transport>>

\* get_transaction_receipt(tx_hash) returned Err because the provider call
\* failed, whether or not the receipt exists.
ReceiptErr ==
    /\ pc = "receipt"
    /\ LET c == [cycle EXCEPT !.receipt = "err"]
       IN  IF receipt_status("err") = "included"
           THEN cycle' = c /\ pc' = "completed" /\ UNCHANGED pending_fee_update
           ELSE ApplyStatus(c, receipt_status("err"))
    /\ UNCHANGED <<chain, build, transport>>

\* check_if_update_completed's contract call answered (read is the stored
\* price) or failed (read is ReadErr).
Completed(read) ==
    /\ pc = "completed"
    /\ LET c == [cycle EXCEPT !.first_read = read]
           st == completed_status(read, pending_fee_update.gas_price)
       IN  IF st = "mismatch"
           THEN cycle' = c /\ pc' = "actual" /\ UNCHANGED pending_fee_update
           ELSE ApplyStatus(c, st)
    /\ UNCHANGED <<chain, build, transport>>
CompletedOk == Completed(contract_price)
CompletedErr == Completed(ReadErr)

\* The second contract call of the Ok(false) arm.
Actual(read) ==
    /\ pc = "actual"
    /\ ApplyStatus([cycle EXCEPT !.second_read = read],
                   mismatch_status(read, pending_fee_update.gas_price))
    /\ UNCHANGED <<chain, build, transport>>
ActualOk == Actual(contract_price)
ActualErr == Actual(ReadErr)

\* get_block_with_tx_hashes(Latest): a block, the pending block, or Err.
BlockOk ==
    /\ pc = "block"
    /\ cycle' = [cycle EXCEPT !.block_read = "ok", !.current_gas_price = net_price]
    /\ pc' = "contract"
    /\ UNCHANGED <<pending_fee_update, chain, build, transport>>
BlockPending ==
    /\ pc = "block"
    /\ EndCycle([cycle EXCEPT !.block_read = "pending_block"], "err_invalid_gas_price")
    /\ UNCHANGED <<pending_fee_update, chain, build, transport>>
BlockErr ==
    /\ pc = "block"
    /\ EndCycle([cycle EXCEPT !.block_read = "err"], "err_provider")
    /\ UNCHANGED <<pending_fee_update, chain, build, transport>>

\* The contract call of step 2 answered: the rest of check_fee_update runs
\* without an await, and main either calls update_fee or logs "up to date".
ContractOk ==
    /\ pc = "contract"
    /\ LET a == price_analysis(cycle.current_gas_price, contract_price, cfg, profile)
           c == [cycle EXCEPT !.gas_price_on_contract = contract_price]
           d == [c EXCEPT !.should_update = a.should_update,
                          !.direction = a.direction,
                          !.new_gas_price = a.new_gas_price,
                          !.upward_threshold = a.upward_threshold,
                          !.downward_threshold = a.downward_threshold]
       IN  CASE a.kind = "conversion" -> EndCycle(c, "err_conversion")
             [] a.kind = "panic" ->
                    cycle' = [c EXCEPT !.result = "panic"] /\ pc' = "panicked"
             [] OTHER ->
                    IF calls_update_fee(a.should_update)
                    THEN cycle' = [d EXCEPT !.submit = "called"] /\ pc' = "chain_id"
                    ELSE EndCycle(d, "ok_no_update")
    /\ UNCHANGED <<pending_fee_update, chain, build, transport>>
ContractErr ==
    /\ pc = "contract"
    /\ EndCycle([cycle EXCEPT !.gas_price_on_contract = ReadErr], "err_provider")
    /\ UNCHANGED <<pending_fee_update, chain, build, transport>>

\* update_fee: provider.chain_id().await?
ChainIdOk ==
    /\ pc = "chain_id"
    /\ pc' = "send"
    /\ UNCHANGED <<cycle, pending_fee_update, chain, build, transport>>
ChainIdErr ==
    /\ pc = "chain_id"
    /\ EndCycle(cycle, "err_update_fee")
    /\ UNCHANGED <<pending_fee_update, chain, build, transport>>

\* update_fee: execute_v3(..).send() returned Ok(result): the transaction is
\* broadcast and the tracker records it.
SendOk ==
    /\ pc = "send"
    /\ next_tx <= MaxTx
    /\ pending_fee_update' =
         tracker_after_send(pending_fee_update, cycle.new_gas_price, TRUE, next_tx)
    /\ sent' = [sent EXCEPT ![next_tx] = cycle.new_gas_price]
    /\ next_tx' = next_tx + 1
    /\ EndCycle([cycle EXCEPT !.submit = "sent", !.transaction_hash = next_tx],
                "update_submitted")
    /\ UNCHANGED <<net_price, contract_price, receipts, build, transport>>
\* send() returned Err(e): nothing was broadcast.
SendErr ==
    /\ pc = "send"
    /\ pending_fee_update' =
         tracker_after_send(pending_fee_update, cycle.new_gas_price, FALSE, 0)
    /\ EndCycle([cycle EXCEPT !.submit = "failed"], "err_update_fee")
    /\ UNCHANGED <<chain, build, transport>>

(***************************************************************************)
(* The chain.                                                              *)
(***************************************************************************)
\* A new block with its own l1 gas price.
ChainNewBlock ==
    /\ \E p \in Prices : net_price' = p
    /\ UNCHANGED <<pc, pending_fee_update, cycle, contract_price, sent,
                   receipts, next_tx, build, transport>>
\* A broadcast transaction is included and executes set_current_gas_price.
ChainTxSucceeds ==
    /\ \E t \in SentHashes \ receipts :
          /\ receipts' = receipts \cup {t}
          /\ contract_price' = sent[t]
    /\ UNCHANGED <<pc, pending_fee_update, cycle, net_price, sent, next_tx, build, transport>>
\* A broadcast transaction is included and reverts.
ChainTxReverts ==
    /\ \E t \in SentHashes \ receipts : receipts' = receipts \cup {t}
    /\ UNCHANGED <<pc, pending_fee_update, cycle, net_price, contract_price,
                   sent, next_tx, build, transport>>
\* Another writer sets the contract's price.
ChainOtherWriter ==
    /\ \E p \in Prices : contract_price' = p
    /\ UNCHANGED <<pc, pending_fee_update, cycle, net_price, sent, receipts,
                   next_tx, build, transport>>

Next ==
    \/ RecvNewHeads
    \/ ReceiptFound
    \/ ReceiptNotFound
    \/ ReceiptErr
    \/ CompletedOk
    \/ CompletedErr
    \/ ActualOk
    \/ ActualErr
    \/ BlockOk
    \/ BlockPending
    \/ BlockErr
    \/ ContractOk
    \/ ContractErr
    \/ ChainIdOk
    \/ ChainIdErr
    \/ SendOk
    \/ SendErr
    \/ ChainNewBlock
    \/ ChainTxSucceeds
    \/ ChainTxReverts
    \/ ChainOtherWriter

Spec == Init /\ [][Next]_vars

(***************************************************************************)
(* The decision rule on its own: every pair of prices and every            *)
(* configuration, on a chain that only the updater's own transactions      *)
(* change and every provider call answers.                                 *)
(***************************************************************************)
CalcInit == Startup(Configs, CalcPrices)

CalcNext ==
    \/ RecvNewHeads
    \/ ReceiptFound
    \/ ReceiptNotFound
    \/ CompletedOk
    \/ BlockOk
    \/ ContractOk
    \/ ChainIdOk
    \/ SendOk
    \/ ChainTxSucceeds

CalcSpec == CalcInit /\ [][CalcNext]_vars

(***************************************************************************)
(* The loop under fairness: the stream keeps delivering block              *)
(* notifications (read.next() returns), every awaited provider call        *)
(* returns with a value or an error, and a receipt that exists is          *)
(* eventually returned by get_transaction_receipt.                         *)
(***************************************************************************)
Fairness ==
    /\ WF_vars(RecvNewHeads)
    /\ SF_vars(ReceiptFound)
    /\ WF_vars(CompletedOk \/ CompletedErr)
    /\ WF_vars(ActualOk \/ ActualErr)
    /\ WF_vars(BlockOk \/ BlockPending \/ BlockErr)
    /\ WF_vars(ContractOk \/ ContractErr)
    /\ WF_vars(ChainIdOk \/ ChainIdErr)
    /\ WF_vars(SendOk \/ SendErr)

\* The chain here is changed by new blocks and by the updater's own
\* transactions only.
LiveNext ==
    \/ RecvNewHeads
    \/ ReceiptFound
    \/ ReceiptNotFound
    \/ ReceiptErr
    \/ CompletedOk
    \/ CompletedErr
    \/ ActualOk
    \/ ActualErr
    \/ BlockOk
    \/ BlockPending
    \/ BlockErr
    \/ ContractOk
    \/ ContractErr
    \/ ChainIdOk
    \/ ChainIdErr
    \/ SendOk
    \/ SendErr
    \/ ChainNewBlock
    \/ ChainTxSucceeds
    \/ ChainTxReverts

LiveSpec == Init /\ [][LiveNext]_vars /\ Fairness

(***************************************************************************)
(* The transport: the messages of the websocket stream, queued until       *)
(* read.next() returns them, and main's match on each of them.             *)
(***************************************************************************)
\* Text payloads: not JSON; JSON with another method; the notification
\* method without params; the subscription confirmation (result); a
\* JSON-RPC error; JSON with none of these keys; and the notification.
IgnoredBodies ==
    {"not_json", "other_method", "no_params", "confirmation", "rpc_error",
     "other_json"}
TextMessage(body) == [frame |-> "text", body |-> body, block |-> 0]
NewHeads(n) == [frame |-> "text", body |-> "new_heads", block |-> n]
\* Message::Ping, Message::Close, any other frame (Binary, Pong, Frame) and
\* an Err item of the stream.
Frame(kind) == [frame |-> kind, body |-> "", block |-> 0]
OtherMessages ==
    {TextMessage(b) : b \in IgnoredBodies}
        \cup {Frame(k) : k \in {"ping", "other", "close", "err"}}

kind_of(msg) == IF msg.frame = "text" THEN msg.body ELSE msg.frame

\* Faulty variants of the match.
dispatch_close_is_skipped(msg) ==
    IF msg.frame = "text"
    THEN IF msg.body = "new_heads" THEN "reconcile" ELSE "skip"
    ELSE IF msg.frame = "err" THEN "exit"
    ELSE IF msg.frame = "ping" THEN "pong"
    ELSE "skip"
dispatch_method_without_params(msg) ==
    IF msg.frame = "text"
    THEN IF msg.body \in {"new_heads", "no_params"} THEN "reconcile" ELSE "skip"
    ELSE IF msg.frame \in {"close", "err"} THEN "exit"
    ELSE IF msg.frame = "ping" THEN "pong"
    ELSE "skip"
\* main's match on the item read.next() returned.
dispatch(msg) ==
    IF msg.frame = "text"
    THEN IF msg.body = "new_heads" THEN "reconcile" ELSE "skip"
    ELSE IF msg.frame \in {"close", "err"} THEN "exit"
    ELSE IF msg.frame = "ping" THEN "pong"
    ELSE "skip"

\* Faulty variant: the stream is polled while a cycle is suspended.
takes_message_while_running(at) == at \notin {"exited", "panicked", "pong"}
\* read.next() is awaited only at the top of the loop.
takes_message(at) == at = "recv"

\* The node announces the next block.
DeliverNewHeads ==
    /\ pc # "exited"
    /\ Len(inbox) < MaxInbox
    /\ heads < MaxBlocks
    /\ heads' = heads + 1
    /\ inbox' = Append(inbox, NewHeads(heads + 1))
    /\ UNCHANGED <<pc, pending_fee_update, cycle, chain, build, handled, last>>
\* Any other message arrives.
DeliverOther ==
    /\ pc # "exited"
    /\ Len(inbox) < MaxInbox
    /\ \E m \in OtherMessages : inbox' = Append(inbox, m)
    /\ UNCHANGED <<pc, pending_fee_update, cycle, chain, build, heads, handled,
                   last>>

\* read.next() returned a block notification: main calls check_fee_update.
TakeNewHeads ==
    /\ takes_message(pc)
    /\ inbox # <<>>
    /\ dispatch(Head(inbox)) = "reconcile"
    /\ StartCycle
    /\ inbox' = Tail(inbox)
    /\ handled' = Append(handled, Head(inbox).block)
    /\ last' = kind_of(Head(inbox))
    /\ UNCHANGED <<pending_fee_update, chain, build, heads>>
\* read.next() returned a message no arm acts on.
TakeIgnored ==
    /\ takes_message(pc)
    /\ inbox # <<>>
    /\ dispatch(Head(inbox)) = "skip"
    /\ inbox' = Tail(inbox)
    /\ last' = kind_of(Head(inbox))
    /\ UNCHANGED <<pc, pending_fee_update, cycle, chain, build, heads, handled>>
\* read.next() returned Message::Ping: main awaits write.send(Pong).
TakePing ==
    /\ takes_message(pc)
    /\ inbox # <<>>
    /\ dispatch(Head(inbox)) = "pong"
    /\ pc' = "pong"
    /\ inbox' = Tail(inbox)
    /\ last' = kind_of(Head(inbox))
    /\ UNCHANGED <<pending_fee_update, cycle, chain, build, heads, handled>>
\* write.send(Message::Pong(data)).await returned Ok.
PongOk ==
    /\ pc = "pong"
    /\ pc' = "recv"
    /\ UNCHANGED <<pending_fee_update, cycle, chain, build, transport>>
\* write.send(Message::Pong(data)).await? returned Err: main returns it.
PongErr ==
    /\ pc = "pong"
    /\ pc' = "exited"
    /\ UNCHANGED <<pending_fee_update, cycle, chain, build, transport>>
\* read.next() returned Message::Close or Err: break.
TakeTerminal ==
    /\ takes_message(pc)
    /\ inbox # <<>>
    /\ dispatch(Head(inbox)) = "exit"
    /\ pc' = "exited"
    /\ inbox' = Tail(inbox)
    /\ last' = kind_of(Head(inbox))
    /\ UNCHANGED <<pending_fee_update, cycle, chain, build, heads, handled>>
\* read.next() returned None: the while let ends.
StreamEnd ==
    /\ takes_message(pc)
    /\ inbox = <<>>
    /\ pc' = "exited"
    /\ last' = "end"
    /\ UNCHANGED <<pending_fee_update, cycle, chain, build, inbox, heads,
                   handled>>

LoopInit == Startup({DefaultConfig}, {1000, 1200})

LoopNext ==
    \/ DeliverNewHeads
    \/ DeliverOther
    \/ TakeNewHeads
    \/ TakeIgnored
    \/ TakePing
    \/ PongOk
    \/ PongErr
    \/ TakeTerminal
    \/ StreamEnd
    \/ ReceiptFound
    \/ ReceiptNotFound
    \/ CompletedOk
    \/ BlockOk
    \/ BlockErr
    \/ ContractOk
    \/ ChainIdOk
    \/ SendOk
    \/ SendErr
    \/ ChainTxSucceeds

LoopSpec == LoopInit /\ [][LoopNext]_vars


(***************************************************************************)
(* Properties.                                                             *)
(***************************************************************************)
\* update_fee has been called in the current (or last) cycle.
Submitting == cycle.submit # "none"
\* The pending check of the cycle ran to its end with a receipt lookup.
StatusKnown == cycle.status # "na"
\* The cycle went on to the price comparison of step 2: the block read is
\* the next await, or has been made.
FellThrough == pc = "block" \/ cycle.block_read # "na"
\* The cycle returned from the pending check without touching the chain's
\* prices and without calling update_fee.
ReturnedEarly ==
    /\ pc = "recv"
    /\ cycle.result = "ok_pending"
    /\ cycle.block_read = "na"
    /\ cycle.current_gas_price = NotRead
    /\ cycle.gas_price_on_contract = NotRead
    /\ cycle.submit = "none"

\* C1: update_fee is called only in a cycle whose pending check left the
\* tracker empty, and never in a cycle that found the tracker holding an
\* update whose receipt lookup gave no receipt, whatever the two prices are.
C1_AtMostOnePending ==
    /\ Submitting => ~cycle.after_check.some
    /\ pc \in {"chain_id", "send"} => ~pending_fee_update.some
    /\ (cycle.start.some /\ cycle.receipt \in {"none", "err"}) =>
          (~Submitting /\ pc \notin {"block", "contract", "chain_id", "send"})
\* A cycle that left the update pending although the network price is
\* outside the band around the contract price.
C1_Witness ==
    /\ cycle.start.some
    /\ cycle.receipt = "none"
    /\ cycle.result = "ok_pending"
    /\ FitsU128(net_price) /\ FitsU128(contract_price)
    /\ update_direction(net_price, upward_threshold(contract_price, cfg),
                        downward_threshold(contract_price, cfg)) # "none"

C3_PendingReturnsEarly ==
    (cycle.start.some /\ cycle.receipt = "none") =>
        /\ cycle.status = "Pending"
        /\ ReturnedEarly
        /\ cycle.first_read = NotRead
        /\ pending_fee_update = cycle.start
C3_Witness ==
    /\ cycle.start.some
    /\ cycle.receipt = "none"
    /\ pc = "recv"

\* C4: a cycle that found a receipt and then read the submitted price from
\* the contract clears the tracker and goes on to the price comparison in
\* the same cycle.
C4_ConfirmedFallsThrough ==
    (cycle.start.some /\ cycle.receipt = "found"
        /\ cycle.first_read = cycle.start.gas_price) =>
        /\ cycle.status = "Confirmed"
        /\ ~cycle.after_check.some
        /\ FellThrough
\* The same cycle confirmed one update and submitted the next.
C4_Witness ==
    /\ cycle.start.some
    /\ cycle.first_read = cycle.start.gas_price
    /\ cycle.status = "Confirmed"
    /\ cycle.submit = "sent"
    /\ pending_fee_update.some
    /\ pending_fee_update.tx_hash # cycle.start.tx_hash

C6_SubmissionRecorded ==
    /\ cycle.submit = "sent" =>
          /\ pending_fee_update =
                PendingUpdate(cycle.new_gas_price, cycle.transaction_hash)
          /\ cycle.should_update
          /\ cycle.new_gas_price =
                price_analysis(cycle.current_gas_price,
                               cycle.gas_price_on_contract, cfg, profile).new_gas_price
          /\ sent[cycle.transaction_hash] = cycle.new_gas_price
    /\ pending_fee_update.some =>
          \/ cycle.submit = "sent"
          \/ pending_fee_update = cycle.start /\ cycle.status \in {"na", "Pending"}
C6_Witness ==
    /\ cycle.submit = "sent"
    /\ pc = "recv"
    /\ pending_fee_update.some
    /\ pending_fee_update.gas_price = cycle.new_gas_price

\* C7: after update_fee failed the tracker is empty, as it was when
\* update_fee was called, the loop is back at read.next(), and the next
\* block notification goes straight to the block read of the comparison.
C7_FailedSubmission ==
    /\ [](cycle.result = "err_update_fee" =>
            /\ ~pending_fee_update.some
            /\ ~cycle.after_check.some
            /\ pc = "recv")
    /\ [][(cycle.result = "err_update_fee" /\ pc' # pc) => pc' = "block"]_vars
C7_Witness ==
    /\ cycle.submit = "failed"
    /\ cycle.result = "err_update_fee"
    /\ pc = "recv"

(***************************************************************************)
(* The decision rule, against arithmetic on unbounded integers.            *)
(***************************************************************************)
\* Both prices of the comparison have been read and fit u128.
Compared ==
    /\ cycle.current_gas_price >= 0
    /\ cycle.gas_price_on_contract >= 0
    /\ FitsU128(cycle.current_gas_price)
    /\ FitsU128(cycle.gas_price_on_contract)
UpwardBound == (cycle.gas_price_on_contract * cfg.upward_threshold_const) \div 100
DownwardBound == (cycle.gas_price_on_contract * cfg.downward_threshold_const) \div 100

\* C8: when the contract price is positive and the network price is above
\* contract_price * upward_threshold_pct / 100, the decision is upward and
\* the price to submit is network_price * upward_buffer_pct / 100.
C8_UpwardDecision ==
    (Compared /\ cycle.gas_price_on_contract > 0
        /\ cycle.current_gas_price > UpwardBound) =>
        /\ cycle.should_update
        /\ cycle.direction = "upward"
        /\ cycle.new_gas_price =
              (cycle.current_gas_price * cfg.upward_buffer_const) \div 100

\* C9: when downward_threshold_pct <= upward_threshold_pct and the network
\* price is below contract_price * downward_threshold_pct / 100, the
\* decision is downward and the price to submit is
\* network_price * downward_buffer_pct / 100.
C9_DownwardDecision ==
    (Compared /\ cfg.downward_threshold_const <= cfg.upward_threshold_const
        /\ cycle.current_gas_price < DownwardBound) =>
        /\ cycle.should_update
        /\ cycle.direction = "downward"
        /\ cycle.new_gas_price =
              (cycle.current_gas_price * cfg.downward_buffer_const) \div 100

\* C10: when the network price is within the two bounds (inclusive) the
\* decision is no update, update_fee is not called and the tracker stays
\* empty.
C10_InBandNoUpdate ==
    (Compared /\ DownwardBound <= cycle.current_gas_price
        /\ cycle.current_gas_price <= UpwardBound) =>
        /\ ~cycle.should_update
        /\ cycle.direction = "none"
        /\ cycle.result = "ok_no_update"
        /\ cycle.submit = "none"
        /\ ~pending_fee_update.some


\* None of the products of the comparison leaves u128 / i128.
WithinRange ==
    LET cur == cycle.current_gas_price
        con == cycle.gas_price_on_contract
    IN  /\ ~MulOverflows(con, cfg.upward_threshold_const)
        /\ ~MulOverflows(con, cfg.downward_threshold_const)
        /\ ~MulOverflows(cur, cfg.upward_buffer_const)
        /\ ~MulOverflows(cur, cfg.downward_buffer_const)
        /\ ~DriftOverflows(cur, con)
\* The decision a cycle made is the one of unbounded integers whenever both
\* prices fit u128 and no product overflows.
ExactWithinRange ==
    (Compared /\ WithinRange) =>
        /\ cycle.result # "panic"
        /\ cycle.direction =
              update_direction(cycle.current_gas_price, UpwardBound, DownwardBound)
        /\ cycle.direction = "upward" =>
              cycle.new_gas_price =
                 (cycle.current_gas_price * cfg.upward_buffer_const) \div 100
        /\ cycle.direction = "downward" =>
              cycle.new_gas_price =
                 (cycle.current_gas_price * cfg.downward_buffer_const) \div 100
        /\ cycle.direction = "none" =>
              cycle.new_gas_price = 0 /\ cycle.submit = "none"


\* Step 2 of the cycle has read both prices (whether or not they fit u128).
BothRead == cycle.current_gas_price >= 0 /\ cycle.gas_price_on_contract >= 0
\* Decision and price of the rule on unbounded integers.
ExactDirection ==
    update_direction(cycle.current_gas_price, UpwardBound, DownwardBound)
ExactNewPrice ==
    CASE ExactDirection = "upward" ->
            (cycle.current_gas_price * cfg.upward_buffer_const) \div 100
      [] ExactDirection = "downward" ->
            (cycle.current_gas_price * cfg.downward_buffer_const) \div 100
      [] OTHER -> 0

\* C11: a cycle that read both prices either ends in an error (a panic is
\* counted as one here) or its thresholds, decision and new price are those
\* of unbounded integers; and a price that does not fit u128 ends the cycle
\* with the conversion error and without a call of update_fee.
C11_NoSilentWraparound ==
    /\ BothRead =>
          \/ cycle.result \in {"err_conversion", "panic"}
          \/ /\ cycle.upward_threshold = UpwardBound
             /\ cycle.downward_threshold = DownwardBound
             /\ cycle.direction = ExactDirection
             /\ cycle.new_gas_price = ExactNewPrice
    /\ (BothRead /\ ~Compared) =>
          (cycle.result = "err_conversion" /\ ~Submitting)

\* C12: with the thresholds 105/85 and buffers 110/110, a cycle that
\* confirmed the pending update (the contract holds its price, also at the
\* read of step 2) does not call update_fee with that same price again.
C12_NoDuplicateAfterConfirmation ==
    (cfg = DefaultConfig /\ cycle.start.some /\ cycle.status = "Confirmed"
        /\ cycle.first_read = cycle.start.gas_price
        /\ cycle.gas_price_on_contract = cycle.start.gas_price) =>
        ~(Submitting /\ cycle.new_gas_price = cycle.start.gas_price)

\* C19: with the thresholds 105/85 and buffers 110/110, on a chain whose
\* network price stays and whose contract price is the one the confirmed
\* update set, the check that confirmed the update decides no update and
\* update_fee is not called again.
C19_NoOscillation ==
    (cfg = DefaultConfig /\ cycle.start.some /\ cycle.status = "Confirmed"
        /\ BothRead /\ cycle.gas_price_on_contract = cycle.start.gas_price) =>
        /\ ~cycle.should_update
        /\ cycle.direction = "none"
        /\ ~Submitting

\* C20: with a contract price of 0 the cycle does not panic, both thresholds
\* are 0, and the decision is upward with network_price * upward_buffer_pct
\* / 100 for a positive network price and no update for 0.
C20_ZeroContractPrice ==
    (Compared /\ cycle.gas_price_on_contract = 0) =>
        /\ cycle.result # "panic"
        /\ cycle.upward_threshold = 0 /\ cycle.downward_threshold = 0
        /\ IF cycle.current_gas_price > 0
           THEN /\ cycle.direction = "upward"
                /\ cycle.new_gas_price =
                      (cycle.current_gas_price * cfg.upward_buffer_const) \div 100
           ELSE cycle.direction = "none" /\ ~Submitting


\* C13: after the block read or the contract read of step 2 failed, the
\* cycle is over with no further read, update_fee was not called and the
\* tracker is empty; the loop is back at read.next() and the next block
\* notification starts a full check at the block read.
C13_TransientReadError ==
    /\ [](cycle.result = "err_provider" =>
            /\ pc = "recv"
            /\ ~Submitting
            /\ ~pending_fee_update.some
            /\ cycle.block_read = "err" => cycle.gas_price_on_contract = NotRead
            /\ cycle.block_read = "ok" => cycle.gas_price_on_contract = ReadErr)
    /\ [][(cycle.result = "err_provider" /\ pc' # pc) =>
             (pc' = "block" /\ cycle' = NewCycle(pending_fee_update))]_vars
\* The contract read of step 2 failed in a cycle that had just cleared the
\* tracker.
C13_Witness ==
    /\ cycle.result = "err_provider"
    /\ cycle.block_read = "ok"
    /\ cycle.gas_price_on_contract = ReadErr
    /\ cycle.start.some
    /\ pc = "recv"

\* Transactions broadcast and not yet included.
InFlight == SentHashes \ receipts

\* C17: a cycle empties a non-empty tracker only after the receipt of the
\* tracked transaction was found; update_fee runs only when every
\* transaction sent before has a receipt; at most one transaction is in
\* flight, and it is the tracked one.
C17_OneInFlight ==
    /\ (cycle.start.some /\ ~cycle.after_check.some) =>
          (cycle.receipt = "found" /\ cycle.start.tx_hash \in receipts)
    /\ pc \in {"chain_id", "send"} => InFlight = {}
    /\ Cardinality(InFlight) <= 1
    /\ \A t \in InFlight :
          pending_fee_update.some /\ pending_fee_update.tx_hash = t
\* A second transaction is in flight after the first got its receipt.
C17_Witness ==
    /\ Cardinality(SentHashes) >= 2
    /\ Cardinality(InFlight) = 1
    /\ pending_fee_update.some
    /\ pending_fee_update.tx_hash \in InFlight


\* C18: a tracked transaction whose receipt exists is eventually removed
\* from the tracker, whatever the contract reads return; and the tracker
\* lets go of a transaction only in a cycle whose receipt lookup found the
\* receipt, so it is kept for as long as the lookup fails.
C18_PendingEventuallyRemoved ==
    /\ \A t \in 1..MaxTx :
          (pending_fee_update.some /\ pending_fee_update.tx_hash = t
              /\ t \in receipts)
          ~> ~(pending_fee_update.some /\ pending_fee_update.tx_hash = t)
    /\ [][(pending_fee_update.some /\ pending_fee_update' # pending_fee_update) =>
             /\ ~pending_fee_update'.some
             /\ cycle.receipt = "found"
             /\ pending_fee_update.tx_hash \in receipts]_vars
\* The tracker was cleared in a cycle whose contract read failed, after an
\* earlier cycle could not get the receipt.
C18_Witness ==
    /\ cycle.start.some
    /\ cycle.receipt = "found"
    /\ cycle.first_read = ReadErr
    /\ cycle.status = "Failed"
    /\ ~pending_fee_update.some


\* A cycle is suspended at one of the awaits of check_fee_update / update_fee.
InCycle ==
    pc \in {"receipt", "completed", "actual", "block", "contract", "chain_id",
            "send"}
\* The block notifications still queued, in order.
QueuedHeads == SelectSeq(inbox, LAMBDA m : dispatch(m) = "reconcile")

\* C14: check_fee_update is called once per block notification, in the
\* order of the notifications and without skipping one; a notification is
\* taken only at read.next(), when the cycle of the one before has returned;
\* a cycle starts only by taking a notification and reads the tracker the
\* cycle before left.
C14_SequentialDrive ==
    /\ [](/\ handled = [i \in 1..Len(handled) |-> i]
          /\ Len(QueuedHeads) = heads - Len(handled)
          /\ \A i \in 1..Len(QueuedHeads) :
                QueuedHeads[i].block = Len(handled) + i
          /\ InCycle <=> cycle.result = "running"
          /\ InCycle => handled # <<>>)
    /\ [][handled' # handled =>
             /\ pc = "recv"
             /\ cycle.result # "running"
             /\ handled' = Append(handled, Len(handled) + 1)
             /\ cycle' = NewCycle(pending_fee_update)]_vars
    /\ [][(cycle'.result = "running" /\ cycle.result # "running") =>
             Len(handled') = Len(handled) + 1]_vars
\* The second notification was queued while the first cycle ran and its
\* cycle has run after it.
C14_Witness ==
    /\ handled = <<1, 2>>
    /\ cycle.start.some
    /\ cycle.result = "ok_pending"
    /\ pc = "recv"

\* C15: a close frame or a transport error ends the loop; after the loop
\* has ended no cycle starts, nothing is submitted and the tracker, a local
\* of main, is not written any more (nothing stores it).
C15_TerminalTransportEvents ==
    /\ [](last \in {"close", "err"} => pc = "exited")
    /\ [][(takes_message(pc) /\ inbox # <<>>
              /\ Head(inbox).frame \in {"close", "err"}
              /\ inbox' = Tail(inbox)) => pc' = "exited"]_vars
    /\ [][pc = "exited" =>
             UNCHANGED <<pc, pending_fee_update, cycle, sent, next_tx,
                         handled, inbox>>]_vars
\* The loop ended on a close frame with an update pending and a block
\* notification still queued.
C15_Witness ==
    /\ pc = "exited"
    /\ last = "close"
    /\ pending_fee_update.some
    /\ QueuedHeads # <<>>

\* The message kinds that are not a block notification and not terminal.
Ignorable == IgnoredBodies \cup {"ping", "other"}

\* C16 as stated: taking an ignorable message starts no cycle, submits
\* nothing, leaves the tracker alone, and the loop never ends on it.
C16_IgnorableNeverEndsLoop ==
    /\ [][(inbox # <<>> /\ inbox' = Tail(inbox)
              /\ kind_of(Head(inbox)) \in Ignorable) =>
             UNCHANGED <<pending_fee_update, cycle, sent, next_tx, handled>>]_vars
    /\ [](last \in Ignorable => pc # "exited")
\* C16: taking an ignorable message starts no cycle, submits nothing and
\* leaves the tracker alone; the loop goes on to the next message, except
\* that a ping is answered first and the loop ends when sending the pong
\* fails.
C16_IgnorableSkipped ==
    /\ [][(inbox # <<>> /\ inbox' = Tail(inbox)
              /\ kind_of(Head(inbox)) \in Ignorable) =>
             /\ UNCHANGED <<pending_fee_update, cycle, sent, next_tx, handled>>
             /\ pc' = IF Head(inbox).frame = "ping" THEN "pong" ELSE "recv"]_vars
    /\ [][pc = "pong" =>
             /\ UNCHANGED <<pending_fee_update, cycle, sent, next_tx, handled>>
             /\ pc' \in {"pong", "recv", "exited"}]_vars
    /\ [](last \in Ignorable /\ pc = "exited" => last = "ping")
\* An update is pending, a notification without params was skipped and the
\* loop is at read.next() again.
C16_Witness ==
    /\ last = "no_params"
    /\ pc = "recv"
    /\ pending_fee_update.some
    /\ handled = <<1>>

====
